---------------------------- MODULE Spec2Model ----------------------------
(***************************************************************************)
(* A model of the BSON <-> JSON tool set:                                  *)
(*   bson_to_json.py   decode a BSON stream, write tagged JSON             *)
(*   json_to_bson.py   read tagged JSON, write a BSON stream               *)
(*   remove_props.py   filter the Elements of every Content payload       *)
(*   b64_from_link_noprops.py   download, convert, filter, convert back,   *)
(*                     emit base64, clean up                               *)
(*                                                                         *)
(* Text is a sequence of one-character strings, bytes are sequences of     *)
(* numbers 0..255, and every Python value is a record with a field t that  *)
(* names its type.  A raised exception is the value Raise(class).          *)
(***************************************************************************)
EXTENDS Integers, Sequences, FiniteSets, TLC

(***************************************************************************)
(* Bounds of the model.                                                    *)
(***************************************************************************)
MaxDocs == 3

(***************************************************************************)
(* Sequences.                                                              *)
(***************************************************************************)
RECURSIVE Concat(_)
Concat(ss) == IF Len(ss) = 0 THEN <<>> ELSE Head(ss) \o Concat(Tail(ss))

Range(s) == {s[i] : i \in 1..Len(s)}

startswith(s, prefix) ==
    /\ Len(s) >= Len(prefix)
    /\ SubSeq(s, 1, Len(prefix)) = prefix

\* Python's `sub in s` on strings, scanning the offsets from the left.
RECURSIVE FindFrom(_, _, _)
FindFrom(sub, s, i) ==
    IF i + Len(sub) - 1 > Len(s) THEN FALSE
    ELSE IF SubSeq(s, i, i + Len(sub) - 1) = sub THEN TRUE
    ELSE FindFrom(sub, s, i + 1)

str_contains(s, sub) == FindFrom(sub, s, 1)

\* str.split(sep) for a one-character separator: the list of the pieces.
RECURSIVE SplitFrom(_, _, _)
SplitFrom(s, sep, cur) ==
    IF Len(s) = 0 THEN <<cur>>
    ELSE IF Head(s) = sep THEN <<cur>> \o SplitFrom(Tail(s), sep, <<>>)
    ELSE SplitFrom(Tail(s), sep, Append(cur, Head(s)))

split(s, sep) == SplitFrom(s, sep, <<>>)

(***************************************************************************)
(* The keys the code names.                                                *)
(***************************************************************************)
KBinary == <<"$","b","i","n","a","r","y">>
KOid == <<"$","o","i","d">>
KRef == <<"$","r","e","f">>
KId == <<"$","i","d">>
KTimestamp == <<"$","t","i","m","e","s","t","a","m","p">>
KNumberDecimal == <<"$","n","u","m","b","e","r","D","e","c","i","m","a","l">>
KT == <<"t">>
KI == <<"i">>
KV == <<"v">>
KW == <<"w">>
KA == <<"a">>
KB == <<"b">>
KO == <<"o">>
KR == <<"r">>
KName == <<"n","a","m","e">>
KContent == <<"C","o","n","t","e","n","t">>
KElements == <<"E","l","e","m","e","n","t","s">>
KAssetName == <<"A","s","s","e","t","N","a","m","e">>
KInventoryId == <<"I","n","v","e","n","t","o","r","y","I","d">>

(***************************************************************************)
(* Exceptions.  ValueErrorClasses are the subclasses of ValueError the     *)
(* code can meet; IOErrorClasses those of OSError (IOError is OSError).    *)
(***************************************************************************)
Raise(cls) == [t |-> "raise", exc |-> cls]

IsRaise(v) == v.t = "raise"

ValueErrorClasses ==
    {"ValueError", "binascii.Error", "UnicodeDecodeError", "JSONDecodeError"}

IOErrorClasses == {"OSError", "FileNotFoundError"}

(***************************************************************************)
(* base64.  b64decode is the non-validating decoder of the standard        *)
(* library: characters outside the alphabet are skipped, a complete pad    *)
(* ends the input, and a group left open raises binascii.Error.            *)
(***************************************************************************)
B64Chars ==
    << "A","B","C","D","E","F","G","H","I","J","K","L","M","N","O","P",
       "Q","R","S","T","U","V","W","X","Y","Z","a","b","c","d","e","f",
       "g","h","i","j","k","l","m","n","o","p","q","r","s","t","u","v",
       "w","x","y","z","0","1","2","3","4","5","6","7","8","9","+","/" >>

B64Char(n) == B64Chars[n + 1]

IsB64Char(c) == \E i \in 1..Len(B64Chars) : B64Chars[i] = c

B64Value(c) == (CHOOSE i \in 1..Len(B64Chars) : B64Chars[i] = c) - 1

\* base64.b64encode(b): four characters for every three bytes, the last
\* group padded with "=".
b64encode(b) ==
    LET n == Len(b)
        byte(k) == IF k <= n THEN b[k] ELSE 0
        char(i) ==
            LET g == (i - 1) \div 4
                r == (i - 1) % 4
                b1 == byte(3 * g + 1)
                b2 == byte(3 * g + 2)
                b3 == byte(3 * g + 3)
            IN IF r = 0 THEN B64Char(b1 \div 4)
               ELSE IF r = 1 THEN B64Char((b1 % 4) * 16 + b2 \div 16)
               ELSE IF r = 2 THEN
                    IF 3 * g + 2 > n THEN "=" ELSE B64Char((b2 % 16) * 4 + b3 \div 64)
               ELSE IF 3 * g + 3 > n THEN "=" ELSE B64Char(b3 % 64)
    IN [i \in 1..(4 * ((n + 2) \div 3)) |-> char(i)]

\* The decoder reads the characters in order, skips those outside the
\* alphabet, and stops at a complete pad: one "=" after three characters of
\* a group, two after two.  B64Scan gives what it has read by then.
B64Scan(s) ==
    LET n == Len(s)
        pos == SelectSeq([i \in 1..n |-> i], LAMBDA i : IsB64Char(s[i]))
        m == Len(pos)
        upto(k) == IF k < m THEN pos[k + 1] - 1 ELSE n
        pads(k) == Cardinality({i \in pos[k]..upto(k) : s[i] = "="})
        stops == {k \in 1..m : \/ k % 4 = 3 /\ pads(k) >= 1
                               \/ k % 4 = 2 /\ pads(k) >= 2}
        used == IF stops = {} THEN m
                ELSE CHOOSE k \in stops : \A l \in stops : k <= l
        v(k) == B64Value(s[pos[k]])
        byte(j) ==
            LET g == (j - 1) \div 3
                r == (j - 1) % 3
            IN IF r = 0 THEN v(4 * g + 1) * 4 + v(4 * g + 2) \div 16
               ELSE IF r = 1 THEN (v(4 * g + 2) % 16) * 16 + v(4 * g + 3) \div 4
               ELSE (v(4 * g + 3) % 4) * 64 + v(4 * g + 4)
    IN IF stops = {} /\ m % 4 # 0 THEN Raise("binascii.Error")
       ELSE [t |-> "bytes", b |-> [j \in 1..((used * 6) \div 8) |-> byte(j)]]

\* base64.b64decode(x): TypeError unless x is a string (or bytes).
b64decode(x) ==
    IF x.t = "str" THEN B64Scan(x.s)
    ELSE Raise("TypeError")

(***************************************************************************)
(* Hexadecimal: str(ObjectId) and ObjectId(str).                           *)
(***************************************************************************)
HexChars == << "0","1","2","3","4","5","6","7","8","9","a","b","c","d","e","f" >>

HexUpper == << "0","1","2","3","4","5","6","7","8","9","A","B","C","D","E","F" >>

IsHexChar(c) == \E i \in 1..16 : HexChars[i] = c \/ HexUpper[i] = c

HexValue(c) == (CHOOSE i \in 1..16 : HexChars[i] = c \/ HexUpper[i] = c) - 1

RECURSIVE hex(_)
hex(b) ==
    IF Len(b) = 0 THEN <<>>
    ELSE << HexChars[(b[1] \div 16) + 1], HexChars[(b[1] % 16) + 1] >> \o hex(Tail(b))

RECURSIVE fromhex(_)
fromhex(s) ==
    IF Len(s) = 0 THEN <<>>
    ELSE << HexValue(s[1]) * 16 + HexValue(s[2]) >> \o fromhex(SubSeq(s, 3, Len(s)))


(***************************************************************************)
(* Decimal numbers in text: str(int), int(str).                            *)
(***************************************************************************)
DigitChars == << "0","1","2","3","4","5","6","7","8","9" >>

IsDigit(c) == \E i \in 1..10 : DigitChars[i] = c

DigitValue(c) == (CHOOSE i \in 1..10 : DigitChars[i] = c) - 1

RECURSIVE NatStr(_)
NatStr(n) == IF n < 10 THEN << DigitChars[n + 1] >>
             ELSE NatStr(n \div 10) \o << DigitChars[(n % 10) + 1] >>

IntStr(n) == IF n < 0 THEN <<"-">> \o NatStr(-n) ELSE NatStr(n)

RECURSIVE NatVal(_)
NatVal(s) == IF Len(s) = 0 THEN 0
             ELSE NatVal(SubSeq(s, 1, Len(s) - 1)) * 10 + DigitValue(s[Len(s)])

AllDigits(s) == \A i \in 1..Len(s) : IsDigit(s[i])

RECURSIVE StripZeros(_)
StripZeros(s) == IF Len(s) > 1 /\ Head(s) = "0" THEN StripZeros(Tail(s)) ELSE s

Zeros(n) == [i \in 1..n |-> "0"]

(***************************************************************************)
(* Python values.                                                          *)
(***************************************************************************)
PyNone == [t |-> "NoneType"]
PyInt(n) == [t |-> "int", n |-> n]
PyStr(s) == [t |-> "str", s |-> s]
PyBytes(b) == [t |-> "bytes", b |-> b]
PyDict(items) == [t |-> "dict", items |-> items]
PyList(elems) == [t |-> "list", elems |-> elems]

\* A dict is its items in insertion order, each <<key, value>>.
Keys(d) == {d.items[i][1] : i \in 1..Len(d.items)}
HasKey(d, k) == k \in Keys(d)
Get(d, k) == d.items[CHOOSE i \in 1..Len(d.items) : d.items[i][1] = k][2]
GetOr(d, k, default) == IF HasKey(d, k) THEN Get(d, k) ELSE default
\* d[k] = v: an existing key keeps its place, a new key goes last.
SetItem(d, k, v) ==
    IF HasKey(d, k)
    THEN PyDict([i \in 1..Len(d.items) |->
                    IF d.items[i][1] = k THEN <<k, v>> ELSE d.items[i]])
    ELSE PyDict(Append(d.items, <<k, v>>))

(***************************************************************************)
(* The bson types the code imports: Binary, ObjectId, DBRef, Timestamp,    *)
(* Decimal128, with the checks their constructors make.                    *)
(***************************************************************************)
OidLen == 12
GeneratedOid == [t |-> "ObjectId", oid |-> <<>>]

\* Binary(data): subtype 0 unless given.  Binary is a subclass of bytes.
Binary(data) ==
    IF IsRaise(data) THEN data ELSE [t |-> "Binary", b |-> data.b, subtype |-> 0]

IsBytesInstance(v) == v.t \in {"bytes", "Binary"}

\* ObjectId(x): 24 hexadecimal characters, or None for a fresh identifier.
ObjectId(x) ==
    IF IsRaise(x) THEN x
    ELSE IF x.t = "NoneType" THEN GeneratedOid
    ELSE IF x.t = "ObjectId" THEN x
    ELSE IF x.t = "str" THEN
        IF Len(x.s) = 2 * OidLen /\ \A i \in 1..Len(x.s) : IsHexChar(x.s[i])
        THEN [t |-> "ObjectId", oid |-> fromhex(x.s)]
        ELSE Raise("InvalidId")
    ELSE Raise("TypeError")

DBRef(collection, id) ==
    IF IsRaise(id) THEN id
    ELSE IF collection.t # "str" THEN Raise("TypeError")
    ELSE [t |-> "DBRef", collection |-> collection.s, id |-> id]

\* Timestamp(time, inc): both in 0 .. 2^32 - 1; the upper limit lies beyond
\* the integers of this model, so only the lower one can be missed here.
Timestamp(time, inc) ==
    IF time.t # "int" \/ inc.t # "int" THEN Raise("TypeError")
    ELSE IF time.n < 0 \/ inc.n < 0 THEN Raise("ValueError")
    ELSE [t |-> "Timestamp", time |-> time.n, inc |-> inc.n]

\* ts['t'], ts['i'] of line 60: KeyError on a mapping without the key,
\* TypeError on anything that is no mapping.
Subscript(v, k) ==
    IF v.t # "dict" THEN Raise("TypeError")
    ELSE IF ~HasKey(v, k) THEN Raise("KeyError")
    ELSE Get(v, k)

\* A Decimal128 is sign, coefficient digits (no leading zeros) and exponent.
\* str(Decimal128): the scientific string of decimal.Decimal.__str__.
DecimalStr(d) ==
    LET n == Len(d.coef)
        leftdigits == d.exp + n
        dotplace == IF d.exp <= 0 /\ leftdigits > -6 THEN leftdigits ELSE 1
        intpart == IF dotplace <= 0 THEN <<"0">>
                   ELSE IF dotplace >= n THEN d.coef \o Zeros(dotplace - n)
                   ELSE SubSeq(d.coef, 1, dotplace)
        fracpart == IF dotplace <= 0 THEN <<".">> \o Zeros(-dotplace) \o d.coef
                    ELSE IF dotplace >= n THEN <<>>
                    ELSE <<".">> \o SubSeq(d.coef, dotplace + 1, n)
        e == leftdigits - dotplace
        expstr == IF e = 0 THEN <<>>
                  ELSE <<"E">> \o (IF e > 0 THEN <<"+">> ELSE <<>>) \o IntStr(e)
    IN (IF d.sign = 1 THEN <<"-">> ELSE <<>>) \o intpart \o fracpart \o expstr

\* Decimal128(str): [sign] digits [. digits] [E [sign] digits]; the special
\* values (NaN, Infinity) are outside this model and read as malformed.
Decimal128(x) ==
    IF x.t # "str" THEN Raise("TypeError")
    ELSE
    LET s == x.s
        neg == Len(s) > 0 /\ Head(s) = "-"
        body == IF Len(s) > 0 /\ Head(s) \in {"-", "+"} THEN Tail(s) ELSE s
        parts == IF "E" \in Range(body) THEN split(body, "E") ELSE split(body, "e")
        mant == split(parts[1], ".")
        ip == mant[1]
        fp == IF Len(mant) > 1 THEN mant[2] ELSE <<>>
        ex == IF Len(parts) > 1 THEN parts[2] ELSE <<"0">>
        exneg == Len(ex) > 0 /\ Head(ex) = "-"
        exbody == IF Len(ex) > 0 /\ Head(ex) \in {"-", "+"} THEN Tail(ex) ELSE ex
        wellformed == /\ Len(parts) <= 2 /\ Len(mant) <= 2
                      /\ Len(ip) + Len(fp) > 0 /\ AllDigits(ip) /\ AllDigits(fp)
                      /\ Len(exbody) > 0 /\ AllDigits(exbody)
    IN IF ~wellformed THEN Raise("InvalidOperation")
       ELSE [t |-> "Decimal128",
             sign |-> IF neg THEN 1 ELSE 0,
             coef |-> StripZeros(ip \o fp),
             exp |-> (IF exneg THEN -NatVal(exbody) ELSE NatVal(exbody)) - Len(fp)]

\* str(x) as the encoder uses it on an identifier and on a reference's id.
str(x) ==
    CASE x.t = "ObjectId" -> hex(x.oid)
      [] x.t = "int" -> IntStr(x.n)
      [] x.t = "str" -> x.s
      [] x.t = "NoneType" -> <<"N","o","n","e">>
      [] x.t = "Decimal128" -> DecimalStr(x)

(***************************************************************************)
(* Comprehensions: the first exception raised, in order, ends the whole    *)
(* comprehension.                                                          *)
(***************************************************************************)
FirstRaise(vals) == vals[CHOOSE i \in 1..Len(vals) :
                            /\ IsRaise(vals[i])
                            /\ \A j \in 1..(i - 1) : ~IsRaise(vals[j])]

AnyRaise(vals) == \E i \in 1..Len(vals) : IsRaise(vals[i])

DictOf(keys, vals) ==
    IF AnyRaise(vals) THEN FirstRaise(vals)
    ELSE PyDict([i \in 1..Len(keys) |-> <<keys[i], vals[i]>>])

ListOf(vals) == IF AnyRaise(vals) THEN FirstRaise(vals) ELSE PyList(vals)

KeySeq(d) == [i \in 1..Len(d.items) |-> d.items[i][1]]

(***************************************************************************)
(* bson_to_json.py: the encoding direction.                                *)
(***************************************************************************)
TagBinary(b) == PyDict(<< <<KBinary, PyStr(b64encode(b))>> >>)

\* convert_bson_to_json, lines 41-58.
RECURSIVE convert_bson_to_json(_)
convert_bson_to_json(data) ==
    IF data.t = "dict" THEN
        PyDict([i \in 1..Len(data.items) |->
                   <<data.items[i][1], convert_bson_to_json(data.items[i][2])>>])
    ELSE IF data.t = "list" THEN
        PyList([i \in 1..Len(data.elems) |-> convert_bson_to_json(data.elems[i])])
    ELSE IF IsBytesInstance(data) THEN TagBinary(data.b)
    ELSE data

IsJsonNative(v) == v.t \in {"NoneType", "int", "str", "dict", "list"}

\* BSONEncoder.default, lines 25-39: called by json.dump on every value that
\* is not JSON-native.
BSONEncoder_default(obj) ==
    IF obj.t = "Binary" THEN TagBinary(obj.b)
    ELSE IF obj.t = "ObjectId" THEN PyDict(<< <<KOid, PyStr(str(obj))>> >>)
    ELSE IF obj.t = "DBRef" THEN
        PyDict(<< <<KRef, PyStr(obj.collection)>>, <<KId, PyStr(str(obj.id))>> >>)
    ELSE IF obj.t = "Timestamp" THEN
        PyDict(<< <<KTimestamp,
                    PyDict(<< <<KT, PyInt(obj.time)>>, <<KI, PyInt(obj.inc)>> >>)>> >>)
    ELSE IF obj.t = "Decimal128" THEN PyDict(<< <<KNumberDecimal, PyStr(str(obj))>> >>)
    ELSE IF obj.t = "bytes" THEN TagBinary(obj.b)
    ELSE Raise("TypeError")

\* json.dump(converted_data, json_file, indent=4, cls=BSONEncoder), line 106,
\* followed by json.load of the text it wrote: the JSON value on the file.
RECURSIVE json_dump(_)
json_dump(v) ==
    IF v.t = "dict" THEN
        DictOf(KeySeq(v), [i \in 1..Len(v.items) |-> json_dump(v.items[i][2])])
    ELSE IF v.t = "list" THEN
        ListOf([i \in 1..Len(v.elems) |-> json_dump(v.elems[i])])
    ELSE IF IsJsonNative(v) THEN v
    ELSE LET d == BSONEncoder_default(v) IN
         IF IsRaise(d) THEN d ELSE json_dump(d)

(***************************************************************************)
(* json_to_bson.py: the decoding direction.                                *)
(***************************************************************************)
BinaryPrefix == KBinary \o <<":">>

\* convert_json_to_bson, lines 40-70, with the first test of the mapping
\* branch swapped for the second.
RECURSIVE convert_json_to_bson_oid_first(_)
convert_json_to_bson_oid_first(data) ==
    IF data.t = "dict" THEN
        IF HasKey(data, KOid) THEN ObjectId(Get(data, KOid))
        ELSE IF HasKey(data, KBinary) THEN Binary(b64decode(Get(data, KBinary)))
        ELSE IF HasKey(data, KRef) /\ HasKey(data, KId) THEN
            DBRef(Get(data, KRef), ObjectId(Get(data, KId)))
        ELSE IF HasKey(data, KTimestamp) THEN
            LET ts == Get(data, KTimestamp)
                tt == Subscript(ts, KT)
                ti == Subscript(ts, KI)
            IN IF IsRaise(tt) THEN tt ELSE IF IsRaise(ti) THEN ti ELSE Timestamp(tt, ti)
        ELSE IF HasKey(data, KNumberDecimal) THEN Decimal128(Get(data, KNumberDecimal))
        ELSE DictOf(KeySeq(data),
                    [i \in 1..Len(data.items) |->
                        convert_json_to_bson_oid_first(data.items[i][2])])
    ELSE IF data.t = "list" THEN
        ListOf([i \in 1..Len(data.elems) |-> convert_json_to_bson_oid_first(data.elems[i])])
    ELSE IF data.t = "str" /\ startswith(data.s, BinaryPrefix) THEN
        Binary(b64decode(PyStr(split(data.s, ":")[2])))
    ELSE data

\* convert_json_to_bson, lines 40-70.
RECURSIVE convert_json_to_bson(_)
convert_json_to_bson(data) ==
    IF data.t = "dict" THEN
        IF HasKey(data, KBinary) THEN Binary(b64decode(Get(data, KBinary)))
        ELSE IF HasKey(data, KOid) THEN ObjectId(Get(data, KOid))
        ELSE IF HasKey(data, KRef) /\ HasKey(data, KId) THEN
            DBRef(Get(data, KRef), ObjectId(Get(data, KId)))
        ELSE IF HasKey(data, KTimestamp) THEN
            LET ts == Get(data, KTimestamp)
                tt == Subscript(ts, KT)
                ti == Subscript(ts, KI)
            IN IF IsRaise(tt) THEN tt ELSE IF IsRaise(ti) THEN ti ELSE Timestamp(tt, ti)
        ELSE IF HasKey(data, KNumberDecimal) THEN Decimal128(Get(data, KNumberDecimal))
        ELSE DictOf(KeySeq(data),
                    [i \in 1..Len(data.items) |-> convert_json_to_bson(data.items[i][2])])
    ELSE IF data.t = "list" THEN
        ListOf([i \in 1..Len(data.elems) |-> convert_json_to_bson(data.elems[i])])
    ELSE IF data.t = "str" /\ startswith(data.s, BinaryPrefix) THEN
        Binary(b64decode(PyStr(split(data.s, ":")[2])))
    ELSE data

(***************************************************************************)
(* The bson library as the code uses it: bson.decode_all on the bytes of   *)
(* a file, bson.encode on one document.  A BSON document is kept as its    *)
(* typed element tree, which fixes its bytes; a stream is the sequence of  *)
(* its length-prefixed documents.                                          *)
(***************************************************************************)
BNull == [t |-> "b_null"]
BInt32(n) == [t |-> "b_int32", n |-> n]
BInt64(n) == [t |-> "b_int64", n |-> n]
BString(s) == [t |-> "b_string", s |-> s]
BBinary(b, subtype) == [t |-> "b_binary", b |-> b, subtype |-> subtype]
BObjectId(oid) == [t |-> "b_objectid", oid |-> oid]
BTimestamp(time, inc) == [t |-> "b_timestamp", time |-> time, inc |-> inc]
BDecimal(sign, coef, exp) == [t |-> "b_decimal128", sign |-> sign, coef |-> coef, exp |-> exp]
BDoc(items) == [t |-> "b_document", items |-> items]
BArray(elems) == [t |-> "b_array", elems |-> elems]

\* One element to its Python value.  An embedded document with exactly the
\* keys $ref and $id comes back as a DBRef; binary subtype 0 as bytes.
RECURSIVE bson_to_python(_, _)
bson_to_python(e, top) ==
    CASE e.t = "b_null" -> PyNone
      [] e.t \in {"b_int32", "b_int64"} -> PyInt(e.n)
      [] e.t = "b_string" -> PyStr(e.s)
      [] e.t = "b_binary" ->
            IF e.subtype = 0 THEN PyBytes(e.b)
            ELSE [t |-> "Binary", b |-> e.b, subtype |-> e.subtype]
      [] e.t = "b_objectid" -> [t |-> "ObjectId", oid |-> e.oid]
      [] e.t = "b_timestamp" -> [t |-> "Timestamp", time |-> e.time, inc |-> e.inc]
      [] e.t = "b_decimal128" ->
            [t |-> "Decimal128", sign |-> e.sign, coef |-> e.coef, exp |-> e.exp]
      [] e.t = "b_array" ->
            PyList([i \in 1..Len(e.elems) |-> bson_to_python(e.elems[i], FALSE)])
      [] e.t = "b_document" ->
            LET d == PyDict([i \in 1..Len(e.items) |->
                        <<e.items[i][1], bson_to_python(e.items[i][2], FALSE)>>])
            IN IF ~top /\ Keys(d) = {KRef, KId} /\ Len(d.items) = 2
                  /\ Get(d, KRef).t = "str"
               THEN [t |-> "DBRef", collection |-> Get(d, KRef).s, id |-> Get(d, KId)]
               ELSE d

\* bson.decode_all(bson_data), lines 93 and 99.
decode_all(file) ==
    IF file.kind = "bson"
    THEN PyList([i \in 1..Len(file.docs) |-> bson_to_python(file.docs[i], TRUE)])
    ELSE Raise("InvalidBSON")

RECURSIVE python_to_bson(_)
python_to_bson(v) ==
    CASE v.t = "NoneType" -> BNull
      [] v.t = "int" -> BInt32(v.n)
      [] v.t = "str" -> BString(v.s)
      [] v.t = "bytes" -> BBinary(v.b, 0)
      [] v.t = "Binary" -> BBinary(v.b, v.subtype)
      [] v.t = "ObjectId" -> BObjectId(v.oid)
      [] v.t = "Timestamp" -> BTimestamp(v.time, v.inc)
      [] v.t = "Decimal128" -> BDecimal(v.sign, v.coef, v.exp)
      [] v.t = "DBRef" ->
            BDoc(<< <<KRef, BString(v.collection)>>, <<KId, python_to_bson(v.id)>> >>)
      [] v.t = "list" -> BArray([i \in 1..Len(v.elems) |-> python_to_bson(v.elems[i])])
      [] v.t = "dict" ->
            BDoc([i \in 1..Len(v.items) |->
                     <<v.items[i][1], python_to_bson(v.items[i][2])>>])

\* bson.encode(doc), lines 29 and 31: a document must be a mapping.
bson_encode(doc) == IF doc.t = "dict" THEN python_to_bson(doc) ELSE Raise("TypeError")

(***************************************************************************)
(* Files.                                                                  *)
(***************************************************************************)
FileAbsent == [kind |-> "absent"]
BsonBytes(docs) == [kind |-> "bson", docs |-> docs]
GarbageBytes == [kind |-> "garbage"]
JsonText(val) == [kind |-> "json", val |-> val]
GarbledText == [kind |-> "garbled"]

\* json.load(json_file), json_to_bson.py line 22 and remove_props.py line 54.
json_load(file) == IF file.kind = "json" THEN file.val ELSE Raise("JSONDecodeError")

(***************************************************************************)
(* State.                                                                  *)
(***************************************************************************)
VARIABLES
    bsonFile,     \* the file at bson_file_path
    jsonFile,     \* the file at output_file_name / json_file_path
    outFile,      \* the file json_to_bson writes
    args,         \* overwrite, validate, the answer typed at the prompt
    cpc,          \* where the conversion stands: start, converted, done
    b2j,          \* how the call of bson_to_json ended
    j2b,          \* how the call of json_to_bson ended
    propsFile,    \* the file remove_props is given
    key_arg,      \* the substring given on the command line
    original,     \* that file as it was before the first pass
    passes,       \* one entry per call of remove_props, in order
    disk,         \* data/ and results/: each path's file and the runs it derives from
    nruns,        \* the calls of show_base64_cleaned_from_url so far
    last          \* how the latest of them ended

codecVars == <<bsonFile, jsonFile, outFile, args, cpc, b2j, j2b>>

filterVars == <<propsFile, key_arg, original, passes>>

pipeVars == <<disk, nruns, last>>

vars == <<codecVars, filterVars, pipeVars>>

NoCall == [outcome |-> "none"]

(***************************************************************************)
(* bson_to_json, lines 60-118.                                             *)
(***************************************************************************)
Raised(cls, out) ==
    [outcome |-> "raised", exc |-> cls, failure |-> TRUE, out |-> out, wrote |-> FALSE,
     decoded |-> PyNone]

bson_to_json(inFile, oldOut, overwrite, validate, user_input, writeFails) ==
    LET Dumped(decoded_data, text) ==
            IF writeFails THEN Raised("OSError", oldOut)
            ELSE IF IsRaise(text) THEN Raised(text.exc, GarbledText)
            ELSE [outcome |-> "returned", exc |-> "", failure |-> FALSE,
                  out |-> JsonText(text), wrote |-> TRUE, decoded |-> decoded_data]
        Decoded(decoded_data) ==
            IF IsRaise(decoded_data) THEN
                \* lines 95-97 and 116-118 with validate, lines 113-115 without
                Raised("ValueError", oldOut)
            ELSE Dumped(decoded_data, json_dump(convert_bson_to_json(decoded_data)))
    IN
    IF oldOut # FileAbsent /\ ~overwrite /\ user_input # "y" THEN
        \* lines 77-82: the output exists and the user declines
        [outcome |-> "returned", exc |-> "", failure |-> FALSE, out |-> oldOut,
         wrote |-> FALSE, decoded |-> PyNone]
    ELSE IF inFile = FileAbsent THEN
        \* line 85, then lines 110-112
        Raised("FileNotFoundError", oldOut)
    ELSE Decoded(decode_all(inFile))

(***************************************************************************)
(* json_to_bson, lines 8-38.                                               *)
(***************************************************************************)
\* The documents written before the first one bson.encode refuses.
RECURSIVE EncodedPrefix(_)
EncodedPrefix(docs) ==
    IF Len(docs) = 0 THEN <<>>
    ELSE LET e == bson_encode(Head(docs)) IN
         IF IsRaise(e) THEN <<>> ELSE <<e>> \o EncodedPrefix(Tail(docs))

\* What the two except clauses of the real handler do with a failure.
Caught(cls, out, converted) ==
    [outcome |-> "returned", exc |-> "", failure |-> TRUE, caught |-> cls, out |-> out,
     converted |-> converted,
     printed |-> IF cls \in IOErrorClasses \cup ValueErrorClasses
                 THEN "An error occurred while processing the files"
                 ELSE "An unexpected error occurred"]

json_to_bson(jsonF, oldOut, writeFails) ==
    LET Done(converted_data, written) ==
            [outcome |-> "returned", exc |-> "", failure |-> FALSE, caught |-> "",
             out |-> BsonBytes(written), converted |-> converted_data,
             printed |-> "Successfully converted JSON to BSON"]
        \* lines 27-29
        WroteList(converted_data, written) ==
            IF Len(written) < Len(converted_data.elems)
            THEN Caught("TypeError", BsonBytes(written), converted_data)
            ELSE Done(converted_data, written)
        \* line 31
        WroteOne(converted_data, e) ==
            IF IsRaise(e) THEN Caught("TypeError", BsonBytes(<<>>), converted_data)
            ELSE Done(converted_data, <<e>>)
        Converted(converted_data) ==
            IF IsRaise(converted_data) THEN Caught(converted_data.exc, oldOut, converted_data)
            ELSE IF writeFails THEN Caught("OSError", oldOut, converted_data)
            ELSE IF converted_data.t = "list"
            THEN WroteList(converted_data, EncodedPrefix(converted_data.elems))
            ELSE WroteOne(converted_data, bson_encode(converted_data))
        Loaded(data) ==
            IF IsRaise(data) THEN Caught(data.exc, oldOut, PyNone)
            ELSE Converted(convert_json_to_bson(data))
    IN
    IF jsonF = FileAbsent THEN Caught("FileNotFoundError", oldOut, PyNone)
    ELSE Loaded(json_load(jsonF))

(***************************************************************************)
(* The inputs of the conversions: BSON streams as a download or a dump     *)
(* gives them, and JSON files as a user writes or edits them.              *)
(***************************************************************************)
Oid1 == <<1, 2, 3, 4, 5, 6, 7, 8, 9, 10, 171, 255>>
Oid1Hex == hex(Oid1)
TextC == <<"c">>
TextX == <<"x">>
TextABC64 == <<"Q","U","J","D">>
LegacyText == BinaryPrefix \o TextABC64

BRef(id) == BDoc(<< <<KRef, BString(TextC)>>, <<KId, id>> >>)

BBlobs ==
    { BBinary(<<>>, 0), BBinary(<<255>>, 0), BBinary(<<0, 16>>, 0),
      BBinary(<<65, 66, 67>>, 0), BBinary(<<65, 66, 67, 68>>, 128) }

BRefs == { BRef(BObjectId(Oid1)), BRef(BInt32(5)), BRef(BString(<<"k">>)) }

BDecimals ==
    { BDecimal(0, <<"1","5","0">>, -2), BDecimal(1, <<"5">>, -8), BDecimal(0, <<"1","5","0">>, 2) }

BScalars == { BNull, BInt32(5), BInt64(7), BString(TextX), BString(LegacyText) }

BLeaves ==
    BBlobs \cup BRefs \cup BDecimals \cup BScalars
        \cup { BObjectId(Oid1), BTimestamp(1, 2), BTimestamp(0, 0) }

BMixLeaves == { BString(TextX), BBinary(<<65, 66, 67>>, 0), BObjectId(Oid1), BTimestamp(1, 2) }

BigDocs ==
    { BDoc(<< <<KV, e>> >>) : e \in BLeaves }
        \cup { BDoc(<< <<KV, BDoc(<< <<KW, e>> >>)>> >>) : e \in BLeaves }
        \cup { BDoc(<< <<KV, BArray(<<e, BInt32(5)>>)>> >>) : e \in BLeaves }
        \cup { BDoc(<< <<KA, e>>, <<KB, f>> >>) : e \in BMixLeaves, f \in BMixLeaves }

SmallDocs ==
    { BDoc(<< <<KV, BString(TextX)>> >>),
      BDoc(<< <<KV, BBinary(<<65, 66, 67>>, 0)>>, <<KO, BObjectId(Oid1)>> >>),
      BDoc(<< <<KR, BRef(BObjectId(Oid1))>> >>),
      BDoc(<< <<KR, BRef(BInt32(5))>> >>) }

SeqsUpTo(S, n) == UNION { [1..k -> S] : k \in 0..n }

Streams == { <<d>> : d \in BigDocs } \cup SeqsUpTo(SmallDocs, MaxDocs)

\* Tagged mappings: every choice of the reserved keys and one plain key,
\* each with a well-formed payload.
TagPayload ==
    << <<KBinary, PyStr(TextABC64)>>,
       <<KOid, PyStr(Oid1Hex)>>,
       <<KRef, PyStr(TextC)>>,
       <<KId, PyStr(Oid1Hex)>>,
       <<KTimestamp, PyDict(<< <<KT, PyInt(1)>>, <<KI, PyInt(2)>> >>)>>,
       <<KNumberDecimal, PyStr(<<"1",".","5","0">>)>>,
       <<KName, PyStr(TextX)>> >>

RECURSIVE Pick(_, _)
Pick(items, K) ==
    IF Len(items) = 0 THEN <<>>
    ELSE (IF Head(items)[1] \in K THEN <<Head(items)>> ELSE <<>>) \o Pick(Tail(items), K)

Reverse(q) == [i \in 1..Len(q) |-> q[Len(q) + 1 - i]]

WellFormedMappings ==
    { PyDict(Pick(TagPayload, K)) : K \in SUBSET Range(KeySeq(PyDict(TagPayload))) }

ReversedMappings == { PyDict(Reverse(m.items)) : m \in WellFormedMappings }

\* Tagged mappings whose payload is malformed.
MalformedMappings ==
    { PyDict(<< <<KBinary, PyStr(<<"a","b","c">>)>> >>),
      PyDict(<< <<KBinary, PyInt(5)>> >>),
      PyDict(<< <<KBinary, PyStr(<<"a","b","c">>)>>, <<KOid, PyStr(Oid1Hex)>> >>),
      PyDict(<< <<KOid, PyStr(<<"5">>)>> >>),
      PyDict(<< <<KOid, PyStr(<<"5">>)>>, <<KBinary, PyStr(TextABC64)>> >>),
      PyDict(<< <<KOid, PyInt(5)>>, <<KNumberDecimal, PyStr(<<"1",".","5","0">>)>> >>),
      PyDict(<< <<KRef, PyStr(TextC)>>, <<KId, PyStr(<<"5">>)>> >>),
      PyDict(<< <<KRef, PyStr(TextC)>>,
                <<KId, PyDict(<< <<KOid, PyStr(Oid1Hex)>> >>)>> >>),
      PyDict(<< <<KRef, PyInt(5)>>, <<KId, PyStr(Oid1Hex)>> >>),
      PyDict(<< <<KTimestamp, PyDict(<< <<KT, PyInt(1)>> >>)>> >>),
      PyDict(<< <<KTimestamp, PyStr(<<"1">>)>> >>),
      PyDict(<< <<KTimestamp, PyDict(<< <<KT, PyInt(-1)>>, <<KI, PyInt(0)>> >>)>> >>),
      PyDict(<< <<KTimestamp, PyDict(<< <<KT, PyStr(<<"1">>)>>, <<KI, PyInt(0)>> >>)>> >>),
      PyDict(<< <<KNumberDecimal, PyStr(<<"a","b","c">>)>> >>),
      PyDict(<< <<KNumberDecimal, PyInt(5)>> >>),
      PyDict(<< <<KName, PyStr(LegacyText)>> >>),
      PyDict(<< <<KName, PyStr(BinaryPrefix \o <<"a","b","c">>)>> >>) }

TagMappings == WellFormedMappings \cup ReversedMappings \cup MalformedMappings

Wrap(m) == PyDict(<< <<KV, m>> >>)

HandJson ==
    { Wrap(m) : m \in TagMappings }
        \cup TagMappings
        \cup { PyList(<<Wrap(PyStr(TextX)), m>>) : m \in MalformedMappings }
        \cup { PyList(<<>>), PyList(<<Wrap(PyStr(TextX)), Wrap(PyInt(5))>>) }

HandFiles == { JsonText(v) : v \in HandJson } \cup { GarbledText, FileAbsent }

StaleJson == JsonText(PyList(<<Wrap(PyStr(<<"o","l","d">>))>>))

(***************************************************************************)
(* The conversions as a state machine: bson_to_json on a BSON file, then   *)
(* json_to_bson on the JSON file; or json_to_bson on a hand-written file.  *)
(***************************************************************************)
ArgSets == [overwrite : BOOLEAN, validate : BOOLEAN, user_input : {"y", "n"}]

DefaultArgs == [overwrite |-> FALSE, validate |-> FALSE, user_input |-> "n"]

CodecInit ==
    /\ outFile = FileAbsent
    /\ b2j = NoCall
    /\ j2b = NoCall
    /\ \/ /\ cpc = "start"
          /\ bsonFile \in { BsonBytes(st) : st \in Streams } \cup { GarbageBytes, FileAbsent }
          /\ jsonFile \in { FileAbsent, StaleJson }
          /\ args \in ArgSets
       \/ /\ cpc = "converted"
          /\ bsonFile = FileAbsent
          /\ jsonFile \in HandFiles
          /\ args = DefaultArgs

\* python bson_to_json.py -f bsonFile -o jsonFile [-y] [-v]
BsonToJson ==
    /\ cpc = "start"
    /\ \E writeFails \in BOOLEAN :
          \E r \in { bson_to_json(bsonFile, jsonFile, args.overwrite, args.validate,
                                  args.user_input, writeFails) } :
             /\ b2j' = r
             /\ jsonFile' = r.out
    /\ cpc' = "converted"
    /\ UNCHANGED <<bsonFile, outFile, args, j2b, filterVars, pipeVars>>

\* python json_to_bson.py -f jsonFile outFile
JsonToBson ==
    /\ cpc = "converted"
    /\ \E writeFails \in BOOLEAN :
          \E r \in { json_to_bson(jsonFile, outFile, writeFails) } :
             /\ j2b' = r
             /\ outFile' = r.out
    /\ cpc' = "done"
    /\ UNCHANGED <<bsonFile, jsonFile, args, b2j, filterVars, pipeVars>>

CodecNext == BsonToJson \/ JsonToBson

(***************************************************************************)
(* Text and bytes: str.encode('utf-8') and bytes.decode('utf-8').  The     *)
(* model holds ASCII text; a byte above 127 is never valid here because    *)
(* the only such bytes of the inputs stand alone.  The grave accent, which *)
(* a string of this language cannot hold, is written out.                  *)
(***************************************************************************)
Printable ==
    <<
       " ","!","\"","#","$","%","&","'","(",")","*","+",",","-",".","/",
       "0","1","2","3","4","5","6","7","8","9",":",";","<","=",">","?",
       "@","A","B","C","D","E","F","G","H","I","J","K","L","M","N","O",
       "P","Q","R","S","T","U","V","W","X","Y","Z","[","\\","]","^","_",
       "<grave>","a","b","c","d","e","f","g","h","i","j","k","l","m","n","o",
       "p","q","r","s","t","u","v","w","x","y","z","{","|","}","~" >>

FirstPrintable == 32
CtlChar == "<ctl>"
Whitespace == {" ", "\t", "\n", "\r"}

Chr(n) ==
    IF n >= FirstPrintable /\ n < FirstPrintable + Len(Printable)
    THEN Printable[n - FirstPrintable + 1]
    ELSE IF n = 9 THEN "\t" ELSE IF n = 10 THEN "\n" ELSE IF n = 13 THEN "\r"
    ELSE CtlChar

Ord(c) ==
    IF c = "\t" THEN 9 ELSE IF c = "\n" THEN 10 ELSE IF c = "\r" THEN 13
    ELSE FirstPrintable - 1 + CHOOSE i \in 1..Len(Printable) : Printable[i] = c

utf8_encode(text) == [i \in 1..Len(text) |-> Ord(text[i])]

utf8_decode(bytes) ==
    IF IsRaise(bytes) THEN bytes
    ELSE IF \E i \in 1..Len(bytes.b) : bytes.b[i] > 127 THEN Raise("UnicodeDecodeError")
    ELSE PyStr([i \in 1..Len(bytes.b) |-> Chr(bytes.b[i])])

(***************************************************************************)
(* json.dumps(obj) with the default separators, and json.loads(text).      *)
(* Strings hold no character that needs an escape.                         *)
(***************************************************************************)
PyBool(v) == [t |-> "bool", v |-> v]

RECURSIVE JoinWith(_, _)
JoinWith(parts, sep) ==
    IF Len(parts) = 0 THEN <<>>
    ELSE IF Len(parts) = 1 THEN parts[1]
    ELSE parts[1] \o sep \o JoinWith(Tail(parts), sep)

Quoted(text) == <<"\"">> \o text \o <<"\"">>

RECURSIVE json_dumps(_)
json_dumps(v) ==
    CASE v.t = "NoneType" -> <<"n","u","l","l">>
      [] v.t = "bool" -> IF v.v THEN <<"t","r","u","e">> ELSE <<"f","a","l","s","e">>
      [] v.t = "int" -> IntStr(v.n)
      [] v.t = "str" -> Quoted(v.s)
      [] v.t = "list" ->
            <<"[">> \o JoinWith([i \in 1..Len(v.elems) |-> json_dumps(v.elems[i])],
                                <<",", " ">>) \o <<"]">>
      [] v.t = "dict" ->
            <<"{">> \o JoinWith([i \in 1..Len(v.items) |->
                                    Quoted(v.items[i][1]) \o <<":", " ">>
                                        \o json_dumps(v.items[i][2])],
                                <<",", " ">>) \o <<"}">>

\* The scanner: each parser takes the text and a position and gives
\* [ok, v, i], i the position after what it read.
NoParse == [ok |-> FALSE]
Parsed(v, i) == [ok |-> TRUE, v |-> v, i |-> i]

RECURSIVE SkipWs(_, _)
SkipWs(s, i) == IF i <= Len(s) /\ s[i] \in Whitespace THEN SkipWs(s, i + 1) ELSE i

\* The position of the quote that closes a string, 0 if there is none.
RECURSIVE ClosingQuote(_, _)
ClosingQuote(s, i) ==
    IF i > Len(s) THEN 0
    ELSE IF s[i] = "\"" THEN i
    ELSE IF s[i] \in {"\\", "\t", "\n", "\r", CtlChar} THEN 0
    ELSE ClosingQuote(s, i + 1)

RECURSIVE DigitsEnd(_, _)
DigitsEnd(s, i) == IF i <= Len(s) /\ IsDigit(s[i]) THEN DigitsEnd(s, i + 1) ELSE i

WordAt(s, i, word) ==
    /\ i + Len(word) - 1 <= Len(s)
    /\ SubSeq(s, i, i + Len(word) - 1) = word

ParseNumber(s, i) ==
    LET d == IF s[i] = "-" THEN i + 1 ELSE i
        e == IF d <= Len(s) /\ s[d] = "0" THEN d + 1 ELSE DigitsEnd(s, d)
    IN IF e = d THEN NoParse
       ELSE Parsed(PyInt(IF d > i THEN -NatVal(SubSeq(s, d, e - 1))
                         ELSE NatVal(SubSeq(s, d, e - 1))), e)

RECURSIVE ParseValue(_, _)
RECURSIVE ParseMembers(_, _, _)
RECURSIVE ParseElems(_, _, _)

ParseValue(s, i0) ==
    LET i == SkipWs(s, i0) IN
    IF i > Len(s) THEN NoParse
    ELSE IF s[i] = "{" THEN
        LET j == SkipWs(s, i + 1) IN
        IF j <= Len(s) /\ s[j] = "}" THEN Parsed(PyDict(<<>>), j + 1)
        ELSE ParseMembers(s, j, PyDict(<<>>))
    ELSE IF s[i] = "[" THEN
        LET j == SkipWs(s, i + 1) IN
        IF j <= Len(s) /\ s[j] = "]" THEN Parsed(PyList(<<>>), j + 1)
        ELSE ParseElems(s, j, <<>>)
    ELSE IF s[i] = "\"" THEN
        LET j == ClosingQuote(s, i + 1) IN
        IF j = 0 THEN NoParse ELSE Parsed(PyStr(SubSeq(s, i + 1, j - 1)), j + 1)
    ELSE IF WordAt(s, i, <<"n","u","l","l">>) THEN Parsed(PyNone, i + 4)
    ELSE IF WordAt(s, i, <<"t","r","u","e">>) THEN Parsed(PyBool(TRUE), i + 4)
    ELSE IF WordAt(s, i, <<"f","a","l","s","e">>) THEN Parsed(PyBool(FALSE), i + 5)
    ELSE IF s[i] = "-" \/ IsDigit(s[i]) THEN ParseNumber(s, i)
    ELSE NoParse

\* "key": value, then a comma and the next member or the closing brace.  A
\* key met again takes the later value.
ParseMembers(s, i, acc) ==
    IF i > Len(s) \/ s[i] # "\"" THEN NoParse
    ELSE
        LET q == ClosingQuote(s, i + 1) IN
        IF q = 0 THEN NoParse
        ELSE
            LET c == SkipWs(s, q + 1) IN
            IF c > Len(s) \/ s[c] # ":" THEN NoParse
            ELSE
                LET r == ParseValue(s, c + 1) IN
                IF ~r.ok THEN NoParse
                ELSE
                    LET acc2 == SetItem(acc, SubSeq(s, i + 1, q - 1), r.v)
                        n == SkipWs(s, r.i)
                    IN IF n > Len(s) THEN NoParse
                       ELSE IF s[n] = "}" THEN Parsed(acc2, n + 1)
                       ELSE IF s[n] = "," THEN ParseMembers(s, SkipWs(s, n + 1), acc2)
                       ELSE NoParse

ParseElems(s, i, acc) ==
    LET r == ParseValue(s, i) IN
    IF ~r.ok THEN NoParse
    ELSE
        LET acc2 == Append(acc, r.v)
            n == SkipWs(s, r.i)
        IN IF n > Len(s) THEN NoParse
           ELSE IF s[n] = "]" THEN Parsed(PyList(acc2), n + 1)
           ELSE IF s[n] = "," THEN ParseElems(s, n + 1, acc2)
           ELSE NoParse

\* json.loads(text): one value, white space around it, nothing else.
json_loads(x) ==
    IF IsRaise(x) THEN x
    ELSE LET r == ParseValue(x.s, 1) IN
         IF r.ok /\ SkipWs(x.s, r.i) > Len(x.s) THEN r.v ELSE Raise("JSONDecodeError")

(***************************************************************************)
(* remove_props.py: the payload filter.                                    *)
(***************************************************************************)
\* `search_key not in x`, x the value of elem.get('AssetName', ''): a
\* substring test on a string, membership on a list or a mapping, TypeError
\* on anything else.
NotIn(search_key, x) ==
    CASE x.t = "str" -> PyBool(~str_contains(x.s, search_key))
      [] x.t = "list" -> PyBool(\A i \in 1..Len(x.elems) : x.elems[i] # PyStr(search_key))
      [] x.t = "dict" -> PyBool(~HasKey(x, search_key))
      [] OTHER -> Raise("TypeError")

IsNone(v) == v.t = "NoneType"

\* The condition of the comprehension, line 28, with `or` for `and`.
KeepElement_or(elem, search_key) ==
    IF elem.t # "dict" THEN Raise("AttributeError")
    ELSE LET absent == NotIn(search_key, GetOr(elem, KAssetName, PyStr(<<>>))) IN
         IF IsRaise(absent) THEN absent
         ELSE PyBool(absent.v \/ IsNone(GetOr(elem, KInventoryId, PyNone)))

\* The condition of the comprehension, line 28: whether the element is
\* kept, or the exception the test raises.
KeepElement(elem, search_key) ==
    IF elem.t # "dict" THEN Raise("AttributeError")
    ELSE LET absent == NotIn(search_key, GetOr(elem, KAssetName, PyStr(<<>>))) IN
         IF IsRaise(absent) THEN absent
         ELSE PyBool(absent.v /\ IsNone(GetOr(elem, KInventoryId, PyNone)))

\* The comprehension written as a loop that removes from the list it walks:
\* the element after a removed one is never looked at.
RECURSIVE RemoveWhileWalking(_, _, _)
RemoveWhileWalking(elems, i, search_key) ==
    IF i > Len(elems) THEN PyList(elems)
    ELSE LET k == KeepElement(elems[i], search_key) IN
         IF IsRaise(k) THEN k
         ELSE IF k.v THEN RemoveWhileWalking(elems, i + 1, search_key)
         ELSE RemoveWhileWalking(SubSeq(elems, 1, i - 1) \o SubSeq(elems, i + 1, Len(elems)),
                                 i + 1, search_key)

FilterElements_in_place(elems, search_key) == RemoveWhileWalking(elems, 1, search_key)

\* The list comprehension of lines 26-29.
FilterElements(elems, search_key) ==
    LET keep == [i \in 1..Len(elems) |-> KeepElement(elems[i], search_key)]
        failed == {i \in 1..Len(elems) : IsRaise(keep[i])}
    IN IF failed # {} THEN keep[CHOOSE i \in failed : \A j \in failed : i <= j]
       ELSE PyList(SelectSeq(elems, LAMBDA e : KeepElement(e, search_key).v))

\* 'Elements' in decoded_json, line 24.
HasElements(decoded_json) ==
    CASE decoded_json.t = "dict" -> PyBool(HasKey(decoded_json, KElements))
      [] decoded_json.t = "list" ->
            PyBool(\E i \in 1..Len(decoded_json.elems) :
                      decoded_json.elems[i] = PyStr(KElements))
      [] decoded_json.t = "str" -> PyBool(str_contains(decoded_json.s, KElements))
      [] OTHER -> Raise("TypeError")

\* Lines 24-29: the decoded payload with its Elements filtered.
FilterPayload(decoded_json, search_key) ==
    LET Filtered(kept) ==
            IF IsRaise(kept) THEN kept ELSE SetItem(decoded_json, KElements, kept)
        Tested(has) ==
            IF IsRaise(has) THEN has
            ELSE IF ~has.v THEN decoded_json
            ELSE IF decoded_json.t # "dict" THEN Raise("TypeError")
            ELSE IF Get(decoded_json, KElements).t # "list" THEN decoded_json
            ELSE Filtered(FilterElements(Get(decoded_json, KElements).elems, search_key))
    IN Tested(HasElements(decoded_json))

\* Line 19: json.loads(base64.b64decode(base64_content).decode('utf-8')).
DecodePayload(base64_content) == json_loads(utf8_decode(b64decode(base64_content)))

\* Line 31.
EncodePayload(decoded_json) == PyStr(b64encode(utf8_encode(json_dumps(decoded_json))))

\* The exceptions the except clause of line 20 names.
CaughtByFilter == {"JSONDecodeError", "TypeError"}

\* Lines 16-32 on one mapping: [tree, printed, exc, returned].  printed
\* counts the failure messages of line 21; returned is the return of line 22.
TransformContent(data, search_key) ==
    LET Replaced(filtered) ==
            IF IsRaise(filtered) THEN
                [tree |-> data, printed |-> 0, exc |-> filtered.exc, returned |-> FALSE]
            ELSE
                [tree |-> SetItem(data, KContent,
                                  PyDict(<< <<KBinary, EncodePayload(filtered)>> >>)),
                 printed |-> 0, exc |-> "", returned |-> FALSE]
        Decoded(decoded_json) ==
            IF IsRaise(decoded_json) THEN
                IF decoded_json.exc \in CaughtByFilter
                THEN [tree |-> data, printed |-> 1, exc |-> "", returned |-> TRUE]
                ELSE [tree |-> data, printed |-> 0, exc |-> decoded_json.exc,
                      returned |-> FALSE]
            ELSE Replaced(FilterPayload(decoded_json, search_key))
    IN
    IF ~HasKey(data, KContent) THEN
        [tree |-> data, printed |-> 0, exc |-> "", returned |-> FALSE]
    ELSE IF Get(data, KContent).t # "dict" THEN
        [tree |-> data, printed |-> 0, exc |-> "AttributeError", returned |-> FALSE]
    ELSE
        Decoded(DecodePayload(GetOr(Get(data, KContent), KBinary, PyStr(<<>>))))

IsContainer(v) == v.t \in {"dict", "list"}

\* process_json, lines 6-42, on a tree it changes in place: the tree as the
\* call leaves it, the failure messages printed, and the exception that
\* ended it ("" when it returned).
RECURSIVE process_json(_, _)
RECURSIVE ProcessItems(_, _, _, _)
RECURSIVE ProcessElems(_, _, _, _)

process_json(data, search_key) ==
    LET Transformed(c) ==
            IF c.exc # "" \/ c.returned
            THEN [tree |-> c.tree, printed |-> c.printed, exc |-> c.exc]
            ELSE ProcessItems(c.tree, 1, c.printed, search_key)
    IN
    IF data.t = "dict" THEN Transformed(TransformContent(data, search_key))
    ELSE IF data.t = "list" THEN ProcessElems(data, 1, 0, search_key)
    ELSE [tree |-> data, printed |-> 0, exc |-> ""]

\* Lines 35-37.
ProcessItems(data, i, printed, search_key) ==
    LET Below(r) ==
            IF r.exc # ""
            THEN [tree |-> PyDict([data.items EXCEPT ![i] = <<data.items[i][1], r.tree>>]),
                  printed |-> printed + r.printed, exc |-> r.exc]
            ELSE ProcessItems(PyDict([data.items EXCEPT ![i] = <<data.items[i][1], r.tree>>]),
                              i + 1, printed + r.printed, search_key)
    IN
    IF i > Len(data.items) THEN [tree |-> data, printed |-> printed, exc |-> ""]
    ELSE IF ~IsContainer(data.items[i][2]) THEN ProcessItems(data, i + 1, printed, search_key)
    ELSE Below(process_json(data.items[i][2], search_key))

\* Lines 40-42.
ProcessElems(data, i, printed, search_key) ==
    LET Below(r) ==
            IF r.exc # ""
            THEN [tree |-> PyList([data.elems EXCEPT ![i] = r.tree]),
                  printed |-> printed + r.printed, exc |-> r.exc]
            ELSE ProcessElems(PyList([data.elems EXCEPT ![i] = r.tree]),
                              i + 1, printed + r.printed, search_key)
    IN
    IF i > Len(data.elems) THEN [tree |-> data, printed |-> printed, exc |-> ""]
    ELSE IF ~IsContainer(data.elems[i]) THEN ProcessElems(data, i + 1, printed, search_key)
    ELSE Below(process_json(data.elems[i], search_key))

\* What the two except clauses of remove_props catch first, lines 63-66.
IOOrJsonErrors == IOErrorClasses \cup {"JSONDecodeError"}

\* remove_props, lines 44-66, on the file at json_file_path: the file as the
\* call leaves it, the tree in memory, and what was printed.
remove_props(file, search_key, writeFails) ==
    LET Processed(r) ==
            IF r.exc # "" THEN
                [file |-> file, data |-> r.tree, printed |-> r.printed, exc |-> r.exc,
                 message |-> IF r.exc \in IOOrJsonErrors
                             THEN "An error occurred while processing the JSON file"
                             ELSE "An unexpected error occurred"]
            ELSE IF writeFails THEN
                [file |-> file, data |-> r.tree, printed |-> r.printed, exc |-> "OSError",
                 message |-> "An error occurred while processing the JSON file"]
            ELSE
                [file |-> JsonText(r.tree), data |-> r.tree, printed |-> r.printed,
                 exc |-> "", message |-> "Successfully processed JSON"]
        Loaded(data) ==
            IF IsRaise(data) THEN
                [file |-> file, data |-> PyNone, printed |-> 0, exc |-> data.exc,
                 message |-> "An error occurred while processing the JSON file"]
            ELSE Processed(process_json(data, search_key))
    IN
    IF file = FileAbsent THEN
        [file |-> file, data |-> PyNone, printed |-> 0, exc |-> "FileNotFoundError",
         message |-> "An error occurred while processing the JSON file"]
    ELSE Loaded(json_load(file))

(***************************************************************************)
(* The inputs of the filter: JSON trees whose Content fields hold payloads *)
(* that decode, payloads that do not, and fields of the wrong shape.       *)
(***************************************************************************)
ExampleText ==
    <<"{","\"","E","l","e","m","e","n","t","s","\"",":","[","{","\"","A","s","s","e",
      "t","N","a","m","e","\"",":","\"","r","e","d","_","p","e","t","_","h","a","t",
      "\"",",","\"","I","n","v","e","n","t","o","r","y","I","d","\"",":","n","u","l",
      "l","}",",","{","\"","A","s","s","e","t","N","a","m","e","\"",":","\"","b","l",
      "u","e","_","h","a","t","\"",",","\"","I","n","v","e","n","t","o","r","y","I","d",
      "\"",":","\"","a","b","c","\"","}",",","{","\"","A","s","s","e","t","N","a","m",
      "e","\"",":","\"","g","r","e","e","n","_","h","a","t","\"",",","\"","I","n","v",
      "e","n","t","o","r","y","I","d","\"",":","n","u","l","l","}","]","}">>

EdgeText ==
    <<"{","\"","E","l","e","m","e","n","t","s","\"",":"," ","[","{","}",","," ","{",
      "\"","A","s","s","e","t","N","a","m","e","\"",":"," ","\"","P","e","t","\"","}",
      ","," ","{","\"","A","s","s","e","t","N","a","m","e","\"",":"," ","\"","p","e",
      "t","\"","}",","," ","{","\"","I","n","v","e","n","t","o","r","y","I","d","\"",
      ":"," ","0","}",","," ","{","\"","I","n","v","e","n","t","o","r","y","I","d","\"",
      ":"," ","\"","\"","}",","," ","{","\"","A","s","s","e","t","N","a","m","e","\"",
      ":"," ","\"","h","a","t","\"",","," ","\"","I","n","v","e","n","t","o","r","y",
      "I","d","\"",":"," ","f","a","l","s","e","}",","," ","{","\"","I","d","\"",":",
      " ","7","}","]",","," ","\"","N","a","m","e","\"",":"," ","\"","x","\"","}">>

NoElementsText ==
    <<"{","\"","N","a","m","e","\"",":","\"","x","\"","}">>

ElementsNotListText ==
    <<"{","\"","E","l","e","m","e","n","t","s","\"",":","5","}">>

ArrayText ==
    <<"[","1",",","2","]">>

BadJsonText ==
    <<"{","b","a","d">>

BadElementText ==
    <<"{","\"","E","l","e","m","e","n","t","s","\"",":","[","{","\"","A","s","s","e",
      "t","N","a","m","e","\"",":","n","u","l","l","}","]","}">>

NumberText ==
    <<"5">>

Payload(text) == PyStr(b64encode(utf8_encode(text)))

\* Payloads that decode to JSON.
GoodPayloads ==
    { Payload(ExampleText), Payload(EdgeText), Payload(NoElementsText),
      Payload(ElementsNotListText), Payload(ArrayText) }

\* Payloads that do not: no JSON, nothing at all, no string, a group of
\* three base64 characters, a byte that is no UTF-8.
BadPayloads ==
    { Payload(BadJsonText), PyStr(<<"!","!","!","!">>), PyInt(5),
      PyStr(<<"a","b","c">>), PyStr(<<"/","w","=","=">>) }

\* Payloads that decode to JSON the filter cannot walk.
OddPayloads == { Payload(NumberText), Payload(BadElementText) }

Contents ==
    { PyDict(<< <<KBinary, pl>> >>) : pl \in GoodPayloads \cup BadPayloads \cup OddPayloads }
        \cup { PyDict(<<>>), PyStr(TextX) }

Node(c) == PyDict(<< <<KContent, c>> >>)

Trees ==
    { Node(c) : c \in Contents }
        \cup { PyList(<<Node(c), Node(d)>>) : c \in Contents, d \in Contents }
        \cup { PyDict(<< <<KContent, c>>, <<KA, Node(d)>> >>) : c \in Contents, d \in Contents }
        \cup { PyList(<<Node(c), PyDict(<< <<KB, PyList(<<PyInt(5), Node(d)>>)>> >>)>>) :
                  c \in Contents, d \in Contents }
        \cup { PyDict(<< <<KName, PyStr(TextX)>>,
                         <<KA, PyList(<<PyDict(<< <<KB, Node(c)>> >>)>>)>> >>) :
                  c \in Contents }

SearchKeys == { <<"p","e","t">>, <<"h","a","t">>, <<>> }

MaxPasses == 2

FilterInit ==
    /\ propsFile \in { JsonText(tr) : tr \in Trees } \cup { GarbledText, FileAbsent }
    /\ original = propsFile
    /\ key_arg \in SearchKeys
    /\ passes = <<>>

\* python remove_props.py -f propsFile search_key
RemoveProps ==
    /\ Len(passes) < MaxPasses
    /\ \E writeFails \in BOOLEAN :
          \E r \in { remove_props(propsFile, key_arg, writeFails) } :
             /\ propsFile' = r.file
             /\ passes' = Append(passes, [input |-> propsFile, data |-> r.data,
                                          printed |-> r.printed, exc |-> r.exc,
                                          message |-> r.message])
    /\ UNCHANGED <<key_arg, original, codecVars, pipeVars>>

FilterNext == RemoveProps


(***************************************************************************)
(* The bytes of a BSON file, as open(file_path, 'rb').read() returns them: *)
(* little-endian lengths, a type byte and a C string per element.          *)
(***************************************************************************)
ByteAt(n, i) == (n \div (256 ^ i)) % 256

Int32LE(n) ==
    IF n >= 0 THEN [i \in 1..4 |-> ByteAt(n, i - 1)]
    ELSE [i \in 1..4 |-> 255 - ByteAt(-n - 1, i - 1)]

Int64LE(n) == Int32LE(n) \o [i \in 1..4 |-> IF n < 0 THEN 255 ELSE 0]

CString(text) == utf8_encode(text) \o <<0>>

TypeByte(e) ==
    CASE e.t = "b_string" -> 2
      [] e.t = "b_document" -> 3
      [] e.t = "b_array" -> 4
      [] e.t = "b_binary" -> 5
      [] e.t = "b_objectid" -> 7
      [] e.t = "b_null" -> 10
      [] e.t = "b_int32" -> 16
      [] e.t = "b_timestamp" -> 17
      [] e.t = "b_int64" -> 18
      [] e.t = "b_decimal128" -> 19

ExponentBias == 6176

RECURSIVE ValueBytes(_)
ValueBytes(e) ==
    LET Framed(items) ==
            LET parts == [i \in 1..Len(items) |->
                             <<TypeByte(items[i][2])>> \o CString(items[i][1])
                                 \o ValueBytes(items[i][2])]
                elements == Concat(parts)
            IN Int32LE(Len(elements) + 5) \o elements \o <<0>>
    IN CASE e.t = "b_null" -> <<>>
         [] e.t = "b_int32" -> Int32LE(e.n)
         [] e.t = "b_int64" -> Int64LE(e.n)
         [] e.t = "b_string" -> Int32LE(Len(e.s) + 1) \o CString(e.s)
         [] e.t = "b_binary" -> Int32LE(Len(e.b)) \o <<e.subtype>> \o e.b
         [] e.t = "b_objectid" -> e.oid
         [] e.t = "b_timestamp" -> Int32LE(e.inc) \o Int32LE(e.time)
         [] e.t = "b_decimal128" ->
               LET biased == e.exp + ExponentBias IN
               Int64LE(NatVal(e.coef)) \o <<0, 0, 0, 0, 0, 0>>
                   \o <<(biased % 128) * 2, e.sign * 128 + (biased \div 128)>>
         [] e.t = "b_document" -> Framed(e.items)
         [] e.t = "b_array" ->
               Framed([i \in 1..Len(e.elems) |-> <<NatStr(i - 1), e.elems[i]>>])

GarbageContent == <<1, 2, 3>>

file_read(file) ==
    CASE file.kind = "bson" -> Concat([i \in 1..Len(file.docs) |-> ValueBytes(file.docs[i])])
      [] file.kind = "garbage" -> GarbageContent

(***************************************************************************)
(* b64_from_link_noprops.py.                                               *)
(***************************************************************************)
FileNotFoundText ==
    <<"F","i","l","e"," ","n","o","t"," ","f","o","u","n","d","."," ","P","l","e","a",
      "s","e"," ","c","h","e","c","k"," ","t","h","e"," ","f","i","l","e"," ","p","a",
      "t","h",".">>

\* convert_file_to_base64, lines 6-23.
convert_file_to_base64(file) ==
    IF file = FileAbsent THEN FileNotFoundText
    ELSE
        LET base64_string == b64encode(file_read(file))
            padding_needed == Len(base64_string) % 4
        IN IF padding_needed # 0
           THEN base64_string \o [i \in 1..(4 - padding_needed) |-> "="]
           ELSE base64_string

DataDir == <<"d","a","t","a","/">>
ResultsDir == <<"r","e","s","u","l","t","s","/">>
BsonExt == <<".","b","s","o","n">>
JsonExt == <<".","j","s","o","n">>

\* lines 27-28
FilePathOf(url) == LET parts == split(url, "/") IN DataDir \o parts[Len(parts)]
\* lines 46 and 60
BsonPathOf(file_path) == file_path \o BsonExt
\* lines 42-44
JsonPathOf(template) == ResultsDir \o template \o JsonExt

\* The default of remove_props.py's search_key, which line 43 leaves alone.
DefaultSearchKey == <<"p","e","t">>

Entry(file, from) == [file |-> file, from |-> from]

NoEntry == Entry(FileAbsent, {})

Unreachable == [kind |-> "unreachable"]

\* The one element of a set of one.  In { e(x) : x \in {v} } the value v is
\* worked out once, however often e names x.
Only(S) == CHOOSE x \in S : TRUE

\* show_base64_cleaned_from_url, lines 38-68, with download_content, lines
\* 25-36: run is the number of this call, content what the server sends,
\* user_input what is typed when bson_to_json.py asks before overwriting,
\* output one of none, saved, fails (the -o file cannot be written).
show_base64_cleaned_from_url(fs, run, url, template, output, content, user_input) ==
    LET file_path == FilePathOf(url)
        bson_path == BsonPathOf(file_path)
        json_path == JsonPathOf(template)
        paths == [file_path |-> file_path, bson_path |-> bson_path, json_path |-> json_path]
        \* lines 30-34
        Downloaded == [fs EXCEPT ![file_path] = Entry(content, {run})]
        \* line 42
        BsonToJsonStep(d) ==
            { [fs |-> IF c.wrote \/ c.out # d[json_path].file
                      THEN [d EXCEPT ![json_path] = Entry(c.out, d[file_path].from)]
                      ELSE d,
               steps |-> <<c.exc>>] :
              c \in { bson_to_json(d[file_path].file, d[json_path].file, FALSE, FALSE,
                                   user_input, FALSE) } }
        \* line 43
        RemovePropsStep(s) ==
            { [fs |-> [s.fs EXCEPT ![json_path] = Entry(c.file, s.fs[json_path].from)],
               steps |-> Append(s.steps, c.exc)] :
              c \in { remove_props(s.fs[json_path].file, DefaultSearchKey, FALSE) } }
        \* line 44
        JsonToBsonStep(s) ==
            { [fs |-> IF c.out # s.fs[bson_path].file
                      THEN [s.fs EXCEPT ![bson_path] = Entry(c.out, s.fs[json_path].from)]
                      ELSE s.fs,
               steps |-> Append(s.steps, c.caught)] :
              c \in { json_to_bson(s.fs[json_path].file, s.fs[bson_path].file, FALSE) } }
        \* lines 46-68: the base64 text, then the finally clause
        Finish(s) ==
            IF output = "fails" THEN
                \* line 49 raises; the finally clause runs, then the call ends
                [fs |-> [s.fs EXCEPT ![file_path] = NoEntry, ![bson_path] = NoEntry],
                 outcome |-> "raised", exc |-> "OSError", base64_string |-> <<>>,
                 from |-> {}, saved |-> FALSE, paths |-> paths, steps |-> s.steps]
            ELSE
                [fs |-> [s.fs EXCEPT ![file_path] = NoEntry, ![bson_path] = NoEntry],
                 outcome |-> "returned", exc |-> "",
                 base64_string |-> convert_file_to_base64(s.fs[bson_path].file),
                 from |-> s.fs[bson_path].from, saved |-> (output = "saved"),
                 paths |-> paths, steps |-> s.steps]
    IN
    IF content = Unreachable THEN
        \* line 30 raises before the try statement is entered
        [fs |-> fs, outcome |-> "raised", exc |-> "ConnectionError", base64_string |-> <<>>,
         from |-> {}, saved |-> FALSE, paths |-> paths, steps |-> <<>>]
    ELSE
        Only({ Finish(s3) :
               s3 \in UNION { JsonToBsonStep(s2) :
               s2 \in UNION { RemovePropsStep(s1) :
               s1 \in UNION { BsonToJsonStep(d) : d \in {Downloaded} } } } })

(***************************************************************************)
(* The pipeline as a state machine: one run after the other on the same    *)
(* data/ and results/ directories.                                         *)
(***************************************************************************)
MaxRuns == 2

Urls == { <<"h","/","a">>, <<"h","/","b">> }

Templates == { <<"t">>, <<"u">> }

DocExample ==
    BDoc(<< <<KName, BString(TextX)>>,
            <<KContent, BBinary(utf8_encode(ExampleText), 0)>> >>)

DocPlain == BDoc(<< <<KV, BString(TextC)>> >>)

DocBadPayload == BDoc(<< <<KContent, BBinary(<<255>>, 0)>> >>)

DocRef == BDoc(<< <<KR, BRef(BInt32(5))>> >>)

Downloads ==
    { BsonBytes(<<DocExample>>), BsonBytes(<<DocPlain>>), BsonBytes(<<DocBadPayload>>),
      BsonBytes(<<DocRef>>), GarbageBytes, Unreachable }

DiskPaths ==
    { FilePathOf(u) : u \in Urls } \cup { BsonPathOf(FilePathOf(u)) : u \in Urls }
        \cup { JsonPathOf(t) : t \in Templates }

NoRun == [outcome |-> "none"]

PipelineInit ==
    /\ disk = [p \in DiskPaths |-> NoEntry]
    /\ nruns = 0
    /\ last = NoRun

\* python b64_from_link_noprops.py -u url -t template [-o output]
ShowBase64CleanedFromUrl ==
    /\ nruns < MaxRuns
    /\ \E url \in Urls, template \in Templates, output \in {"none", "saved", "fails"},
          content \in Downloads, user_input \in {"y", "n"} :
          \E r \in { show_base64_cleaned_from_url(disk, nruns + 1, url, template, output,
                                                  content, user_input) } :
             /\ disk' = r.fs
             /\ last' = [outcome |-> r.outcome, exc |-> r.exc,
                         base64_string |-> r.base64_string, from |-> r.from,
                         saved |-> r.saved, paths |-> r.paths, steps |-> r.steps,
                         content |-> content]
    /\ nruns' = nruns + 1
    /\ UNCHANGED <<codecVars, filterVars>>

PipelineNext == ShowBase64CleanedFromUrl

(***************************************************************************)
(* The specifications: each tool runs on its own; the others stay idle.    *)
(***************************************************************************)
CodecIdle ==
    /\ bsonFile = FileAbsent /\ jsonFile = FileAbsent /\ outFile = FileAbsent
    /\ args = DefaultArgs /\ cpc = "idle" /\ b2j = NoCall /\ j2b = NoCall

FilterIdle ==
    /\ propsFile = FileAbsent /\ original = FileAbsent
    /\ key_arg = DefaultSearchKey /\ passes = <<>>

PipelineIdle == disk = <<>> /\ nruns = 0 /\ last = NoRun

InitCodec == CodecInit /\ FilterIdle /\ PipelineIdle

InitFilter == FilterInit /\ CodecIdle /\ PipelineIdle

InitPipeline == PipelineInit /\ CodecIdle /\ FilterIdle

SpecCodec == InitCodec /\ [][CodecNext]_vars

SpecFilter == InitFilter /\ [][FilterNext]_vars

SpecPipeline == InitPipeline /\ [][PipelineNext]_vars


(***************************************************************************)
(* Properties of the conversions.                                          *)
(***************************************************************************)
\* Equality of two decoded documents value by value: a blob by its bytes,
\* a reference by its collection and its target, everything else as it is.
RECURSIVE NativeEq(_, _)
NativeEq(a, b) ==
    IF a.t \in {"bytes", "Binary"} THEN b.t \in {"bytes", "Binary"} /\ a.b = b.b
    ELSE IF a.t # b.t THEN FALSE
    ELSE IF a.t = "dict" THEN
        /\ Len(a.items) = Len(b.items)
        /\ \A i \in 1..Len(a.items) :
              /\ a.items[i][1] = b.items[i][1]
              /\ NativeEq(a.items[i][2], b.items[i][2])
    ELSE IF a.t = "list" THEN
        /\ Len(a.elems) = Len(b.elems)
        /\ \A i \in 1..Len(a.elems) : NativeEq(a.elems[i], b.elems[i])
    ELSE IF a.t = "DBRef" THEN a.collection = b.collection /\ NativeEq(a.id, b.id)
    ELSE a = b

\* C1: decoding the JSON that bson_to_json wrote gives back the documents
\* that were encoded, each equal to the original value by value.
C1_RoundTrip ==
    (cpc = "done" /\ b2j.outcome = "returned" /\ b2j.wrote)
        => NativeEq(b2j.decoded, j2b.converted)

\* The tags in the order the claim fixes, and when a mapping matches one.
TagOrder == <<KBinary, KOid, KRef, KTimestamp, KNumberDecimal>>

Matches(m, tag) == IF tag = KRef THEN HasKey(m, KRef) /\ HasKey(m, KId) ELSE HasKey(m, tag)

FirstMatch(m) ==
    LET hits == {i \in 1..Len(TagOrder) : Matches(m, TagOrder[i])}
    IN IF hits = {} THEN 0 ELSE CHOOSE i \in hits : \A j \in hits : i <= j

\* The rule of one tag alone, whatever else the mapping holds.
RuleOf(m, tag) ==
    CASE tag = KBinary -> Binary(b64decode(Get(m, KBinary)))
      [] tag = KOid -> ObjectId(Get(m, KOid))
      [] tag = KRef -> DBRef(Get(m, KRef), ObjectId(Get(m, KId)))
      [] tag = KTimestamp ->
            Only({ IF IsRaise(tt) THEN tt ELSE
                   Only({ IF IsRaise(ti) THEN ti ELSE Timestamp(tt, ti) :
                          ti \in {Subscript(Get(m, KTimestamp), KI)} }) :
                   tt \in {Subscript(Get(m, KTimestamp), KT)} })
      [] tag = KNumberDecimal -> Decimal128(Get(m, KNumberDecimal))

RECURSIVE ByPrecedence(_)
ByPrecedence(v) ==
    IF v.t = "dict" THEN
        IF FirstMatch(v) # 0 THEN RuleOf(v, TagOrder[FirstMatch(v)])
        ELSE DictOf(KeySeq(v), [i \in 1..Len(v.items) |-> ByPrecedence(v.items[i][2])])
    ELSE IF v.t = "list" THEN ListOf([i \in 1..Len(v.elems) |-> ByPrecedence(v.elems[i])])
    ELSE convert_json_to_bson(v)

\* C2: a mapping is decoded by the first of $binary, $oid, $ref with $id,
\* $timestamp, $numberDecimal that it matches and by that tag's rule alone;
\* a mapping that matches none is decoded field by field under the same keys.
C2_TagPrecedence ==
    (cpc = "done" /\ jsonFile.kind = "json") => j2b.converted = ByPrecedence(jsonFile.val)

\* C2: a mapping with $oid before $binary and a plain field was decoded to
\* the blob of its $binary payload.
C2_Witness ==
    /\ cpc = "done" /\ jsonFile.kind = "json" /\ jsonFile.val.t = "dict"
    /\ HasKey(jsonFile.val, KV) /\ Get(jsonFile.val, KV).t = "dict"
    /\ Keys(Get(jsonFile.val, KV)) = {KOid, KBinary, KName}
    /\ Get(jsonFile.val, KV).items[1][1] = KName
    /\ j2b.converted = Wrap(Binary(PyBytes(<<65, 66, 67>>)))

\* C6: a stream of n documents comes back from bson_to_json and json_to_bson
\* as a JSON list of n elements and then as the same stream, byte for byte.
C6_SequenceRoundTrip ==
    (cpc = "done" /\ b2j.outcome = "returned" /\ b2j.wrote /\ j2b.caught # "OSError")
        => /\ jsonFile.val.t = "list"
           /\ Len(jsonFile.val.elems) = Len(bsonFile.docs)
           /\ outFile = bsonFile

\* C7: a call of bson_to_json or of json_to_bson that met a failure ended
\* by raising to its caller.
C7_FailuresRaised ==
    /\ (b2j.outcome # "none" /\ b2j.failure) => b2j.outcome = "raised"
    /\ (j2b.outcome # "none" /\ j2b.failure) => j2b.outcome = "raised"

(***************************************************************************)
(* Properties of the filter.  A node is named by its path: the positions,  *)
(* from the root, of the fields and elements that lead to it.              *)
(***************************************************************************)
RECURSIVE ContentNodes(_)
ContentNodes(v) ==
    IF v.t = "dict" THEN
        (IF HasKey(v, KContent) THEN {<<>>} ELSE {})
            \cup UNION { { <<i>> \o q : q \in ContentNodes(v.items[i][2]) } :
                         i \in 1..Len(v.items) }
    ELSE IF v.t = "list" THEN
        UNION { { <<i>> \o q : q \in ContentNodes(v.elems[i]) } : i \in 1..Len(v.elems) }
    ELSE {}

RECURSIVE At(_, _)
At(v, q) ==
    IF Len(q) = 0 THEN v
    ELSE IF v.t = "dict" THEN At(v.items[Head(q)][2], Tail(q))
    ELSE At(v.elems[Head(q)], Tail(q))

HoldsPayload(node) ==
    Get(node, KContent).t = "dict" /\ HasKey(Get(node, KContent), KBinary)

PayloadOf(node) == Get(Get(node, KContent), KBinary)

Undecodable(node) ==
    HoldsPayload(node) /\ \E d \in {DecodePayload(PayloadOf(node))} : IsRaise(d)

WellFormedElement(e) ==
    e.t = "dict" /\ (HasKey(e, KAssetName) => Get(e, KAssetName).t = "str")

\* The payload decodes to an object with an Elements sequence.
HasElementList(d) ==
    /\ ~IsRaise(d) /\ d.t = "dict" /\ HasKey(d, KElements)
    /\ Get(d, KElements).t = "list"
    /\ \A i \in 1..Len(Get(d, KElements).elems) :
          WellFormedElement(Get(d, KElements).elems[i])

Filterable(node) ==
    HoldsPayload(node) /\ \E d \in {DecodePayload(PayloadOf(node))} : HasElementList(d)

Contains(text, sub) ==
    \E i \in 0..(Len(text) - Len(sub)) : SubSeq(text, i + 1, i + Len(sub)) = sub

\* The claim's test of one element.
StaysIn(e, sub) ==
    /\ ~Contains(IF HasKey(e, KAssetName) THEN Get(e, KAssetName).s ELSE <<>>, sub)
    /\ (~HasKey(e, KInventoryId) \/ Get(e, KInventoryId) = PyNone)

RECURSIVE Subsequence(_, _)
Subsequence(elems, sub) ==
    IF Len(elems) = 0 THEN <<>>
    ELSE (IF StaysIn(Head(elems), sub) THEN <<Head(elems)>> ELSE <<>>)
             \o Subsequence(Tail(elems), sub)

\* after holds the payload of before with its Elements filtered.
FilteredAs(before, after, sub) ==
    /\ HoldsPayload(after)
    /\ \E d \in {DecodePayload(PayloadOf(after))}, b \in {DecodePayload(PayloadOf(before))} :
          /\ ~IsRaise(d) /\ d.t = "dict" /\ HasKey(d, KElements)
          /\ Get(d, KElements) = PyList(Subsequence(Get(b, KElements).elems, sub))

\* The passes that had a tree to work on.
Loaded == {k \in 1..Len(passes) : passes[k].input.kind = "json"}

TreeBefore(k) == passes[k].input.val

TreeAfter(k) == passes[k].data

Completed(k) == passes[k].exc \in {"", "OSError"}

GreenHat ==
    PyDict(<< <<KAssetName, PyStr(<<"g","r","e","e","n","_","h","a","t">>)>>,
              <<KInventoryId, PyNone>> >>)

PlainTree(tree) ==
    \A q \in ContentNodes(tree) :
        /\ HoldsPayload(At(tree, q))
        /\ \E d \in {DecodePayload(PayloadOf(At(tree, q)))} :
              \/ IsRaise(d)
              \/ HasElementList(d)
              \/ d.t = "dict" /\ ~HasKey(d, KElements)

\* C4: with a payload that cannot be decoded in the tree, the pass does not
\* abort, reports one failure for each such node and leaves it as it was,
\* and filters every other Content node.
C4_MalformedIsolated ==
    \A k \in Loaded :
        LET bad == {q \in ContentNodes(TreeBefore(k)) : Undecodable(At(TreeBefore(k), q))}
        IN (PlainTree(TreeBefore(k)) /\ bad # {})
              => /\ Completed(k)
                 /\ passes[k].printed = Cardinality(bad)
                 /\ \A q \in bad : At(TreeAfter(k), q) = At(TreeBefore(k), q)
                 /\ \A q \in ContentNodes(TreeBefore(k)) :
                       Filterable(At(TreeBefore(k), q))
                           => FilteredAs(At(TreeBefore(k), q), At(TreeAfter(k), q), key_arg)

\* C5: a pass that completes has filtered every Content node that holds a
\* $binary payload with an Elements sequence, wherever the node is.
C5_FilterCoverage ==
    \A k \in Loaded :
        Completed(k)
            => \A q \in ContentNodes(TreeBefore(k)) :
                  Filterable(At(TreeBefore(k), q))
                      => FilteredAs(At(TreeBefore(k), q), At(TreeAfter(k), q), key_arg)

\* C10: a pass over the file a completed pass wrote completes as well and
\* leaves the tree as that pass left it.
C10_Idempotent ==
    \A k \in 2..Len(passes) :
        passes[k - 1].exc = ""
            => /\ Completed(k)
               /\ TreeBefore(k) = TreeAfter(k - 1)
               /\ TreeAfter(k) = TreeAfter(k - 1)

\* C10: a first pass changed the tree and wrote it, and a second pass ran
\* over what it wrote.
C10_Witness ==
    /\ Len(passes) >= 2
    /\ passes[1].exc = ""
    /\ TreeAfter(1) # TreeBefore(1)
    /\ passes[2].exc = ""

(***************************************************************************)
(* Properties of the pipeline.                                             *)
(***************************************************************************)
\* C8: after a run, the downloaded file, its .bson and the run's JSON file
\* in results/ are gone.
C8_ArtifactsRemoved ==
    nruns > 0
        => /\ disk[last.paths.file_path].file = FileAbsent
           /\ disk[last.paths.bson_path].file = FileAbsent
           /\ disk[last.paths.json_path].file = FileAbsent

\* C9: the base64 text a run emits derives from no bytes but those the run
\* itself fetched.
C9_RunIsolation == nruns > 0 => last.from \subseteq {nruns}

=============================================================================
